---- MODULE Spec2Model ----
(***************************************************************************)
(* Financial Zen: the transaction intake and confirmation pipeline of the  *)
(* React App (src/Plan.md), the service layer (src/unnamed/part_000), the  *)
(* extraction gateway (src/lib/ai.ts) and the record store                 *)
(* (src/lib/store.ts).                                                     *)
(*                                                                         *)
(* Spec      drives the App through its handlers: text edits, the debounce *)
(*           timer, receipt upload, form submit, confirm, cancel, delete   *)
(*           and the arrival of remote replies.                            *)
(* StoreSpec drives the exported db object directly through its methods.   *)
(***************************************************************************)
EXTENDS Integers, Sequences, FiniteSets, TLC

VARIABLES
    magicInput,      \* App state: the text bar
    aiPreview,       \* App state: the pending preview, Null when none
    previewImage,    \* App state: the staged receipt image, Null when none
    isProcessing,    \* App state: busy flag of the debounced text extraction
    isScanning,      \* App state: busy flag of the receipt extraction
    appTransactions, \* App state `transactions`: the last refreshed ledger view
    timers,          \* the setTimeout callbacks still pending, in scheduling order
    inflight,        \* remote extraction calls awaiting their reply, in issue order
    sinceChange,     \* ms elapsed since the text bar last changed (saturating)
    users,           \* MockDatabase.users
    transactions,    \* MockDatabase.transactions
    budgets,         \* MockDatabase.budgets
    localStorage,    \* the texts kept under the three storage keys
    lastOp           \* history: the operation that produced the current state

appVars == <<magicInput, aiPreview, previewImage, isProcessing, isScanning,
             appTransactions, timers, inflight, sinceChange>>
dbVars == <<users, transactions, budgets, localStorage>>
vars == <<magicInput, aiPreview, previewImage, isProcessing, isScanning,
          appTransactions, timers, inflight, sinceChange,
          users, transactions, budgets, localStorage, lastOp>>

----------------------------------------------------------------------------
(* Bounds of the model *)

MaxTx == 1
MaxStored == 3
MaxSpend == 2
MaxUsers == 4
MaxInFlight == 2
TicksPerDebounce == 2

\* The longest history handed to askFinancialCoach.
MaxHistory == 51

(* Program constants *)

DebounceMs == 1500
MinLen == 8

TickMs == DebounceMs \div TicksPerDebounce

----------------------------------------------------------------------------
(* Values *)

\* JavaScript null / undefined for a whole value.
Null == [null |-> TRUE]

\* The empty object {}.
EmptyRecord == [f \in {} |-> TRUE]

Min(a, b) == IF a < b THEN a ELSE b
Max(a, b) == IF a > b THEN a ELSE b

\* Texts the user can have in the text bar: lengths 0, 8 and 9.
Texts == {"", "Dinner $", "Dinner $4"}

\* Receipt files the user can select, as the data URL the reader produces.
Images == {[dataUrl |-> "data:image/png;base64,AAAA", type |-> "image/png"]}

GuestId == "guest_user"

\* The value of new Date().toISOString() during the run.
NowISO == "2024-03-02T09:00:00.000Z"

GuestUser == [id |-> GuestId, email |-> "guest@zen.finance", name |-> "Zen Traveler",
              preferences |-> [currency |-> "USD", theme |-> "dark"],
              createdAt |-> NowISO]

\* Math.random().toString(36).substring(2, 11): nothing keeps two draws apart.
\* As many identifiers as the store can hold records, so that two records can
\* carry different identifiers or the same one.
IdOf(n) == CASE n = 1 -> "k3j9x0q1z" [] n = 2 -> "p7m2c8v5b" [] OTHER -> "w4t6y1r9n"
Ids == {IdOf(n) : n \in 1..MaxTx}

\* The closed enumeration of the data model.
Categories == {"Food", "Transport", "Utilities", "Entertainment", "Health",
               "Shopping", "Other", "Uncategorized"}

\* Objects the remote model can answer with.
PGood == [amount |-> 40, currency |-> "USD", category |-> "Food",
          date |-> "2024-03-01", merchant |-> "Cafe"]
PBad == [amount |-> -5, currency |-> "USD", category |-> "Dining", date |-> "yesterday"]
Partials == {EmptyRecord, PGood, PBad}

\* What generateContent can do: fail (transport or provider), answer without
\* text, answer with text that is not JSON, answer with JSON text.
Replies == {[t |-> "fail"], [t |-> "none"], [t |-> "garbage"]}
           \cup {[t |-> "json", v |-> p] : p \in Partials \cup {Null}}

----------------------------------------------------------------------------
(* JavaScript helpers *)

Has(p, f) == f \in DOMAIN p

\* p.f || d for a numeric field: undefined and 0 are falsy.
OrNum(p, f, d) == IF Has(p, f) /\ p[f] # 0 THEN p[f] ELSE d

\* p.f || d for a string field: undefined and "" are falsy.
OrStr(p, f, d) == IF Has(p, f) /\ p[f] # "" THEN p[f] ELSE d

\* `${p.merchant}` in a template literal.
Interpolate(p, f) == IF Has(p, f) THEN p[f] ELSE "undefined"

\* Truthiness of a JSON value that is an object or null: every object, the
\* empty one included, is truthy.
Truthy(v) == v # Null

\* Whether new Date(s) is a valid date: the strings of the model that parse.
DateParses(s) == s \in {"2024-03-01", "2024-03-02", "2024-03-02T09:00:00.000Z"}

\* new Date(s).getTime() of a string that parses, in hours since the epoch.
DateTime(s) ==
    CASE s = "2024-03-01" -> 474792
      [] s = "2024-03-02" -> 474816
      [] s = "2024-03-02T09:00:00.000Z" -> 474825

----------------------------------------------------------------------------
(* src/lib/ai.ts: the extraction gateway *)

Threw == [threw |-> TRUE]
Returned(v) == [threw |-> FALSE, value |-> v]

\* parseTransactionWithAI: the remote call is awaited outside any try block;
\* only JSON.parse is guarded.
parseTransactionWithAI(reply) ==
    CASE reply.t = "fail" -> Threw
      [] reply.t = "none" -> Returned([transaction |-> EmptyRecord])
      [] reply.t = "garbage" -> Returned([transaction |-> EmptyRecord])
      [] reply.t = "json" -> Returned([transaction |-> reply.v])

\* scanReceiptWithAI: same shape, the parsed value is returned directly.
scanReceiptWithAI(reply) ==
    CASE reply.t = "fail" -> Threw
      [] reply.t = "none" -> Returned(EmptyRecord)
      [] reply.t = "garbage" -> Returned(EmptyRecord)
      [] reply.t = "json" -> Returned(reply.v)

\* The number of transactions askFinancialCoach puts in its prompt at most.
HistoryLimit == 50

\* The string askFinancialCoach returns for a response without text.
FallbackText == "Synchronicity lost. Please repeat the query."

\* What the remote call of askFinancialCoach can come to: a failure, a
\* response without text, a response with text.
CoachReplies == {[t |-> "fail"], [t |-> "none"], [t |-> "text", v |-> "Spend less on Food."]}

\* askFinancialCoach(history, query): slice(0, 50) is the context of the
\* prompt; the remote call is awaited with no try block around it;
\* `response.text || fallback` is returned.
askFinancialCoach(history, reply) ==
    LET context == SubSeq(history, 1, Min(Len(history), HistoryLimit))
    IN CASE reply.t = "fail" -> [threw |-> TRUE, context |-> context]
         [] reply.t = "none" -> [threw |-> FALSE, value |-> FallbackText, context |-> context]
         [] reply.t = "text" -> [threw |-> FALSE, value |-> reply.v, context |-> context]

----------------------------------------------------------------------------
(* src/lib/store.ts: MockDatabase *)

\* The value of a property that is present and holds undefined, as
\* `aiMetadata: payload.aiMetadata` leaves it when the payload has none.
Undefined == [undefined |-> TRUE]

\* JSON.stringify of an object: a property holding undefined is left out. Of
\* the types stored here only aiMetadata can hold it.
StringifyObject(r) ==
    [f \in {g \in DOMAIN r : ~(g = "aiMetadata" /\ r[g] = Undefined)} |-> r[f]]

\* A text kept under a storage key: whether it is well-formed JSON and, when
\* it is, the array it denotes.
JSONStringify(arr) ==
    [wellFormed |-> TRUE, array |-> [i \in 1..Len(arr) |-> StringifyObject(arr[i])]]

\* A text that JSON.parse rejects.
MalformedText == [wellFormed |-> FALSE, array |-> <<>>]

\* JSON.parse: the array, or a SyntaxError.
JSONParse(text) == IF text.wellFormed THEN Returned(text.array) ELSE Threw

StorageKeys == {"users", "transactions", "budgets"}

\* localStorage.setItem throws QuotaExceededError when the value it is given
\* no longer fits. q names the write of commit() that throws, "ok" if none:
\* only the write of a collection that has just grown can be the one.
\* commit(): three writes in order; a throwing write skips the later ones.
commit(ls, u, t, b, q) ==
    CASE q = "users" -> ls
      [] q = "transactions" -> [ls EXCEPT !.users = JSONStringify(u)]
      [] q = "budgets" -> [ls EXCEPT !.users = JSONStringify(u),
                                     !.transactions = JSONStringify(t)]
      [] OTHER -> [users |-> JSONStringify(u), transactions |-> JSONStringify(t),
                   budgets |-> JSONStringify(b)]

\* hydrate(): three JSON.parse in one try block, each assigned as it returns;
\* the first that throws leaves its field and the later ones at their
\* initializer [], and the catch only logs.
hydrate(ls) ==
    LET u == JSONParse(ls.users)
        t == JSONParse(ls.transactions)
        b == JSONParse(ls.budgets)
    IN CASE u.threw -> [users |-> <<>>, transactions |-> <<>>, budgets |-> <<>>]
         [] ~u.threw /\ t.threw ->
                [users |-> u.value, transactions |-> <<>>, budgets |-> <<>>]
         [] ~u.threw /\ ~t.threw /\ b.threw ->
                [users |-> u.value, transactions |-> t.value, budgets |-> <<>>]
         [] OTHER -> [users |-> u.value, transactions |-> t.value, budgets |-> b.value]

\* What localStorage can do during the commit of createTransaction.
CreateQuota == {"ok", "transactions"}

\* getUser: Array.prototype.find, Null for undefined.
getUser(us, id) ==
    LET hits == {i \in 1..Len(us) : us[i].id = id}
    IN IF hits = {} THEN Null
       ELSE us[CHOOSE i \in hits : \A j \in hits : i <= j]

\* The comparator of getTransactions: a NaN difference counts as 0.
CompareDateDesc(a, b) ==
    IF DateParses(a.date) /\ DateParses(b.date)
    THEN DateTime(b.date) - DateTime(a.date)
    ELSE 0

\* Array.prototype.sort as a stable insertion sort.
RECURSIVE InsertSorted(_, _, _)
InsertSorted(s, x, j) ==
    IF j = 0 \/ CompareDateDesc(s[j], x) <= 0
    THEN SubSeq(s, 1, j) \o <<x>> \o SubSeq(s, j + 1, Len(s))
    ELSE InsertSorted(s, x, j - 1)

RECURSIVE SortByDateDesc(_)
SortByDateDesc(s) ==
    IF s = <<>> THEN <<>>
    ELSE LET front == SortByDateDesc(SubSeq(s, 1, Len(s) - 1))
         IN InsertSorted(front, s[Len(s)], Len(front))

\* this.transactions after getTransactions, were sort run on the stored array.
StoredAfterSort_InPlace(txs) == SortByDateDesc(txs)

\* this.transactions after getTransactions has run: filter gives a new array
\* and sort works on that array, not on the stored one.
StoredAfterSort(txs) == txs

\* getTransactions with an exclusive lower bound on the date (> for >=).
getTransactions_ExclusiveStart(txs, userId, filters) ==
    LET Owned(t) == t.userId = userId
        ByCategory(t) == t.category = filters.category
        ByStart(t) ==
            IF DateParses(t.date) /\ DateParses(filters.startDate)
            THEN DateTime(t.date) > DateTime(filters.startDate)
            ELSE FALSE
        d0 == SelectSeq(txs, Owned)
        d1 == IF filters # Null /\ OrStr(filters, "category", "") # ""
              THEN SelectSeq(d0, ByCategory) ELSE d0
        d2 == IF filters # Null /\ OrStr(filters, "startDate", "") # ""
              THEN SelectSeq(d1, ByStart) ELSE d1
    IN SortByDateDesc(d2)

\* getTransactions(userId, filters): filters is Null or a record that may hold
\* category and startDate.
getTransactions(txs, userId, filters) ==
    LET Owned(t) == t.userId = userId
        ByCategory(t) == t.category = filters.category
        ByStart(t) ==
            IF DateParses(t.date) /\ DateParses(filters.startDate)
            THEN DateTime(t.date) >= DateTime(filters.startDate)
            ELSE FALSE
        d0 == SelectSeq(txs, Owned)
        d1 == IF filters # Null /\ OrStr(filters, "category", "") # ""
              THEN SelectSeq(d0, ByCategory) ELSE d0
        d2 == IF filters # Null /\ OrStr(filters, "startDate", "") # ""
              THEN SelectSeq(d1, ByStart) ELSE d1
    IN SortByDateDesc(d2)

\* deleteTransaction that zeroes the amount of the record and keeps it.
deleteTransaction_Tombstone(txs, id, userId) ==
    [i \in 1..Len(txs) |->
        IF txs[i].id = id /\ txs[i].userId = userId
        THEN [txs[i] EXCEPT !.amount = 0] ELSE txs[i]]

\* deleteTransaction that looks at the identifier only, not at the owner.
deleteTransaction_AnyOwner(txs, id, userId) ==
    LET Keep(t) == ~(t.id = id)
    IN SelectSeq(txs, Keep)

\* deleteTransaction: the in-memory filter.
deleteTransaction(txs, id, userId) ==
    LET Keep(t) == ~(t.id = id /\ t.userId = userId)
    IN SelectSeq(txs, Keep)

\* createTransaction that assigns the collection instead of pushing to it.
createTransaction_Overwrite(txs, tx) == <<tx>>

\* createTransaction without its push.
createTransaction_NoPush(txs, tx) == txs

\* createTransaction: the in-memory push; no check of any field.
createTransaction(txs, tx) == Append(txs, tx)

\* reduce((sum, t) => sum + t.amount, 0), from the left.
RECURSIVE SumAmounts(_)
SumAmounts(s) ==
    IF s = <<>> THEN 0
    ELSE SumAmounts(SubSeq(s, 1, Len(s) - 1)) + s[Len(s)].amount

\* getBudgets that returns the stored spent instead of recomputing it.
getBudgets_StoredSpent(bs, txs, userId) ==
    LET OwnedB(b) == b.userId = userId
    IN SelectSeq(bs, OwnedB)

\* getBudgets(userId): the user's budgets, each with spent recomputed from the
\* user's transactions of exactly that category.
getBudgets(bs, txs, userId) ==
    LET OwnedB(b) == b.userId = userId
        userBudgets == SelectSeq(bs, OwnedB)
        mine == getTransactions(txs, userId, Null)
        Spent(b) == LET InCategory(t) == t.category = b.category
                    IN SumAmounts(SelectSeq(mine, InCategory))
    IN [i \in 1..Len(userBudgets) |-> [userBudgets[i] EXCEPT !.spent = Spent(userBudgets[i])]]

\* upsertBudget that pushes without looking for the identifier.
upsertBudget_AlwaysPush(bs, budget) == Append(bs, budget)

\* upsertBudget(budget): findIndex on the identifier, then assignment at that
\* index or push.
upsertBudget(bs, budget) ==
    LET hits == {i \in 1..Len(bs) : bs[i].id = budget.id}
    IN IF hits # {}
       THEN [bs EXCEPT ![CHOOSE i \in hits : \A j \in hits : i <= j] = budget]
       ELSE Append(bs, budget)

\* createUser(user): push; nothing looks at the identifiers already stored.
createUser(us, user) == Append(us, user)

\* The constructor, were it to create the guest user at every start.
MockDatabase_AlwaysGuest(ls) ==
    LET h == hydrate(ls)
        us == createUser(h.users, GuestUser)
    IN [users |-> us, transactions |-> h.transactions, budgets |-> h.budgets,
        ls |-> commit(ls, us, h.transactions, h.budgets, "ok")]

\* new MockDatabase(): hydrate, then createUser of the guest user (push and
\* commit) when no user was loaded. Gives the fields and the storage after.
MockDatabase(ls) ==
    LET h == hydrate(ls)
        us == createUser(h.users, GuestUser)
    IN IF Len(h.users) = 0
       THEN [users |-> us, transactions |-> h.transactions, budgets |-> h.budgets,
             ls |-> commit(ls, us, h.transactions, h.budgets, "ok")]
       ELSE [users |-> h.users, transactions |-> h.transactions, budgets |-> h.budgets,
             ls |-> ls]

----------------------------------------------------------------------------
(* src/unnamed/part_000: the service layer *)

currentUserId == GuestId

\* The record TransactionService.create builds from a payload. aiMetadata is
\* copied from the payload, which never carries one here, and is left out.
newTx(payload, user, id) ==
    [id |-> id,
     userId |-> user.id,
     amount |-> OrNum(payload, "amount", 0),
     currency |-> OrStr(payload, "currency", user.preferences.currency),
     date |-> OrStr(payload, "date", NowISO),
     category |-> OrStr(payload, "category", "Uncategorized"),
     merchant |-> OrStr(payload, "merchant", "Unknown"),
     description |-> OrStr(payload, "description", ""),
     tags |-> IF Has(payload, "tags") THEN payload.tags ELSE <<>>,
     isRecurring |-> IF Has(payload, "isRecurring") THEN payload.isRecurring ELSE FALSE]

\* TransactionService.create(payload): the session lookup, the push, the
\* commit; every exception becomes status 500, with whatever was done before
\* it left in place. Gives the status and the store after the call.
TransactionServiceCreate(payload, id, q) ==
    LET user == getUser(users, currentUserId)
    IN IF user = Null
       THEN [status |-> 500, transactions |-> transactions, ls |-> localStorage]
       ELSE LET txs == createTransaction(transactions, newTx(payload, user, id))
            IN [status |-> IF q = "ok" THEN 201 ELSE 500,
                transactions |-> txs,
                ls |-> commit(localStorage, users, txs, budgets, q)]

\* TransactionService.parseNaturalLanguage(input), given the remote reply.
parseNaturalLanguage(reply) ==
    LET r == parseTransactionWithAI(reply)
    IN IF r.threw THEN Threw
       ELSE Returned([data |-> r.value.transaction, status |-> 200])

\* TransactionService.uploadReceipt(file, mime), given the remote reply.
uploadReceipt(reply) ==
    LET r == scanReceiptWithAI(reply)
    IN IF r.threw THEN Threw
       ELSE Returned([data |-> r.value, status |-> 200])

\* TransactionService.getAll().data
TransactionServiceGetAll(txs) == getTransactions(txs, currentUserId, Null)

\* The literal budgets BudgetService.getAll answers with when the user has none.
DefaultBudgets ==
    <<[id |-> "b1", userId |-> currentUserId, category |-> "Food",
       limitAmount |-> 500, period |-> "monthly", spent |-> 0],
      [id |-> "b2", userId |-> currentUserId, category |-> "Transport",
       limitAmount |-> 200, period |-> "monthly", spent |-> 0],
      [id |-> "b3", userId |-> currentUserId, category |-> "Entertainment",
       limitAmount |-> 300, period |-> "monthly", spent |-> 0]>>

\* BudgetService.getAll().data
BudgetServiceGetAll(bs, txs) ==
    LET found == getBudgets(bs, txs, currentUserId)
    IN IF Len(found) = 0 THEN DefaultBudgets ELSE found

\* The keys of catMap in the order Object.entries gives them: the order in
\* which the categories first occur.
RECURSIVE CategoriesInOrder(_)
CategoriesInOrder(s) ==
    IF s = <<>> THEN <<>>
    ELSE LET front == CategoriesInOrder(SubSeq(s, 1, Len(s) - 1))
             c == s[Len(s)].category
         IN IF \E i \in 1..Len(front) : front[i] = c THEN front ELSE Append(front, c)

\* (amount / totalSpent) * 100 under its guard, as the exact quotient
\* num / den; the number 0 is 0 / 1.
Percentage(amount, totalSpent) ==
    IF totalSpent > 0 THEN [num |-> amount * 100, den |-> totalSpent]
    ELSE [num |-> 0, den |-> 1]

\* sort((a, b) => b.amount - a.amount) left out.
SortByAmountDesc_None(s) == s

\* The comparator of topCategories.
CompareAmountDesc(a, b) == b.amount - a.amount

RECURSIVE InsertByAmount(_, _, _)
InsertByAmount(s, x, j) ==
    IF j = 0 \/ CompareAmountDesc(s[j], x) <= 0
    THEN SubSeq(s, 1, j) \o <<x>> \o SubSeq(s, j + 1, Len(s))
    ELSE InsertByAmount(s, x, j - 1)

\* sort((a, b) => b.amount - a.amount), as a stable insertion sort.
RECURSIVE SortByAmountDesc(_)
SortByAmountDesc(s) ==
    IF s = <<>> THEN <<>>
    ELSE LET front == SortByAmountDesc(SubSeq(s, 1, Len(s) - 1))
         IN InsertByAmount(front, s[Len(s)], Len(front))

\* t.date.split('T')[0]: the part of the string before its first 'T', the
\* whole string when it has none.
DayOf(date) == IF date = NowISO THEN "2024-03-02" ELSE date

\* The keys of trendMap in the order Object.entries lists them: the order of
\* first assignment.
RECURSIVE DaysInOrder(_)
DaysInOrder(s) ==
    IF s = <<>> THEN <<>>
    ELSE LET front == DaysInOrder(SubSeq(s, 1, Len(s) - 1))
             d == DayOf(s[Len(s)].date)
         IN IF \E i \in 1..Len(front) : front[i] = d THEN front ELSE Append(front, d)

\* The comparator of trend: a difference with NaN in it is NaN, which sort
\* takes as 0.
CompareDateAsc(a, b) ==
    IF DateParses(a.date) /\ DateParses(b.date)
    THEN DateTime(a.date) - DateTime(b.date)
    ELSE 0

RECURSIVE InsertByDate(_, _, _)
InsertByDate(s, x, j) ==
    IF j = 0 \/ CompareDateAsc(s[j], x) <= 0
    THEN SubSeq(s, 1, j) \o <<x>> \o SubSeq(s, j + 1, Len(s))
    ELSE InsertByDate(s, x, j - 1)

\* sort((a, b) => new Date(a.date).getTime() - new Date(b.date).getTime()),
\* as a stable insertion sort.
RECURSIVE SortByDateAsc(_)
SortByDateAsc(s) ==
    IF s = <<>> THEN <<>>
    ELSE LET front == SortByDateAsc(SubSeq(s, 1, Len(s) - 1))
         IN InsertByDate(front, s[Len(s)], Len(front))

\* AnalyticsService.getDashboardSummary().data: the total, the category
\* breakdown and the per-day trend.
getDashboardSummary(txs) ==
    LET mine == getTransactions(txs, currentUserId, Null)
        totalSpent == SumAmounts(mine)
        keys == CategoriesInOrder(mine)
        days == DaysInOrder(mine)
        Point(d) == LET OnDay(t) == DayOf(t.date) = d
                    IN [date |-> d, amount |-> SumAmounts(SelectSeq(mine, OnDay))]
        Entry(c) == LET InCategory(t) == t.category = c
                        amount == SumAmounts(SelectSeq(mine, InCategory))
                    IN [category |-> c, amount |-> amount,
                        percentage |-> Percentage(amount, totalSpent)]
    IN [totalSpent |-> totalSpent,
        burnRate |-> 0,
        topCategories |-> SortByAmountDesc([i \in 1..Len(keys) |-> Entry(keys[i])]),
        trend |-> SortByDateAsc([i \in 1..Len(days) |-> Point(days[i])])]

----------------------------------------------------------------------------
(* src/Plan.md: the App component *)

\* An extraction call awaiting its reply. via: "timer" (the debounced
\* callback), "submit" (the form's onSubmit) or "upload" (handleFileUpload).
\* changed and cancelled are history: whether the text bar changed, and
\* whether cancel was clicked, while the call was in flight.
Call(via, input) == [via |-> via, input |-> input, changed |-> FALSE, cancelled |-> FALSE]

IsTextCall(c) == c.via \in {"timer", "submit"}

MarkChanged(calls) ==
    [i \in 1..Len(calls) |->
        IF IsTextCall(calls[i]) THEN [calls[i] EXCEPT !.changed = TRUE] ELSE calls[i]]

MarkCancelled(calls) ==
    [i \in 1..Len(calls) |-> [calls[i] EXCEPT !.cancelled = TRUE]]

RemoveAt(s, i) == SubSeq(s, 1, i - 1) \o SubSeq(s, i + 1, Len(s))

\* `if (timerRef.current) clearTimeout(timerRef.current)`, left out.
clearTimeout_Skipped(ts) == ts

\* `if (timerRef.current) clearTimeout(timerRef.current)`: timerRef holds the
\* callback scheduled last, which, when still pending, is the last of ts;
\* clearing one that has run does nothing.
clearTimeout(ts) ==
    IF ts = <<>> THEN <<>> ELSE SubSeq(ts, 1, Len(ts) - 1)

\* The useEffect on [magicInput], run with the new text t and the preview pv of
\* the same render: gives the pending callbacks afterwards. When the condition
\* fails the effect does nothing, so a callback scheduled earlier stays
\* scheduled.
ParsingEffect(t, pv) ==
    IF Len(t) > MinLen /\ pv = Null
    THEN Append(clearTimeout(timers), [text |-> t, left |-> DebounceMs])
    ELSE timers

\* The `if (aiPreview)` of confirmTransaction, left out.
ConfirmGuard_Always == TRUE

\* The `if (aiPreview)` of confirmTransaction.
ConfirmGuard == aiPreview # Null

\* The preview after confirmTransaction, were setAiPreview(null) left out.
ConfirmedPreview_Kept == aiPreview

\* The preview after confirmTransaction: setAiPreview(null).
ConfirmedPreview == Null

\* The state the cancel button leaves the staged image in, were it to set
\* only the preview.
CancelledImage_Kept == previewImage

\* The state the cancel button leaves the staged image in: setPreviewImage(null).
CancelledImage == Null

\* refreshData(): the ledger view read through TransactionService.getAll. The
\* budget and analytics views are recomputed from the same store by the same
\* call and hold nothing the store does not.
refreshData(txs) == TransactionServiceGetAll(txs)

Init ==
    /\ magicInput = ""
    /\ aiPreview = Null
    /\ previewImage = Null
    /\ isProcessing = FALSE
    /\ isScanning = FALSE
    /\ appTransactions = <<>>
    /\ timers = <<>>
    /\ inflight = <<>>
    /\ sinceChange = DebounceMs
    /\ users = <<GuestUser>>
    /\ transactions = <<>>
    /\ budgets = <<>>
    /\ localStorage = [users |-> JSONStringify(<<GuestUser>>),
                       transactions |-> JSONStringify(<<>>),
                       budgets |-> JSONStringify(<<>>)]
    /\ lastOp = [op |-> "init"]

\* The text input's onChange: setMagicInput(t), then the parsing effect.
\* cleared: whether the effect cancelled a callback that was still pending.
setMagicInput(t) ==
    /\ t # magicInput
    /\ magicInput' = t
    /\ timers' = ParsingEffect(t, aiPreview)
    /\ inflight' = MarkChanged(inflight)
    /\ sinceChange' = 0
    /\ lastOp' = [op |-> "setMagicInput",
                  cleared |-> Len(t) > MinLen /\ aiPreview = Null /\ timers # <<>>]
    /\ UNCHANGED <<aiPreview, previewImage, isProcessing, isScanning, appTransactions>>
    /\ UNCHANGED dbVars

\* Time passes by one tick. A callback that is due runs before time moves on.
Tick ==
    /\ \A i \in 1..Len(timers) : timers[i].left > 0
    /\ sinceChange < DebounceMs \/ timers # <<>>
    /\ sinceChange' = Min(sinceChange + TickMs, DebounceMs)
    /\ timers' = [i \in 1..Len(timers) |-> [timers[i] EXCEPT !.left = Max(@ - TickMs, 0)]]
    /\ lastOp' = [op |-> "tick"]
    /\ UNCHANGED <<magicInput, aiPreview, previewImage, isProcessing, isScanning,
                   appTransactions, inflight>>
    /\ UNCHANGED dbVars

\* The i-th pending setTimeout callback, up to its await: setIsProcessing(true)
\* and the call to parseNaturalLanguage with the text the effect closed over.
TimerFire(i) ==
    /\ timers[i].left = 0
    /\ Len(inflight) < MaxInFlight
    /\ isProcessing' = TRUE
    /\ inflight' = Append(inflight, Call("timer", timers[i].text))
    /\ timers' = RemoveAt(timers, i)
    /\ lastOp' = [op |-> "timerFire", text |-> timers[i].text]
    /\ UNCHANGED <<magicInput, aiPreview, previewImage, isScanning, appTransactions,
                   sinceChange>>
    /\ UNCHANGED dbVars

\* handleFileUpload up to its await: the reader's onload stages the image,
\* sets isScanning and calls uploadReceipt.
handleFileUpload(img) ==
    /\ Len(inflight) < MaxInFlight
    /\ previewImage' = img
    /\ isScanning' = TRUE
    /\ inflight' = Append(inflight, Call("upload", img))
    /\ lastOp' = [op |-> "upload"]
    /\ UNCHANGED <<magicInput, aiPreview, isProcessing, appTransactions, timers,
                   sinceChange>>
    /\ UNCHANGED dbVars

\* The reply to the i-th outstanding call arrives and the code after the
\* await runs: the debounced callback (try / catch / finally), the .then of
\* the form's onSubmit, or handleFileUpload (try / catch / finally). The
\* promise chain of onSubmit has no catch, so a rejection there is unhandled
\* (escaped).
ReplyArrives(i, reply) ==
    LET c == inflight[i]
        r == IF c.via = "upload" THEN uploadReceipt(reply) ELSE parseNaturalLanguage(reply)
        set == ~r.threw /\ Truthy(r.value.data)
    IN /\ inflight' = RemoveAt(inflight, i)
       /\ aiPreview' = IF set THEN r.value.data ELSE aiPreview
       /\ isProcessing' = IF c.via = "timer" THEN FALSE ELSE isProcessing
       /\ isScanning' = IF c.via = "upload" THEN FALSE ELSE isScanning
       /\ lastOp' = [op |-> "result", call |-> c, escaped |-> c.via = "submit" /\ r.threw]
       /\ UNCHANGED <<magicInput, previewImage, appTransactions, timers, sinceChange>>
       /\ UNCHANGED dbVars

\* confirmTransaction(): id is the identifier drawn for the new record, q the
\* behaviour of localStorage during the commit.
confirmTransaction(id, q) ==
    IF ConfirmGuard
    THEN LET payload == [f \in DOMAIN aiPreview \cup {"description"} |->
                            IF f = "description"
                            THEN IF magicInput # "" THEN magicInput
                                 ELSE "Zen Scan: " \o Interpolate(aiPreview, "merchant")
                            ELSE aiPreview[f]]
             res == TransactionServiceCreate(payload, id, q)
         IN /\ Len(transactions) < MaxTx
            /\ transactions' = res.transactions
            /\ localStorage' = res.ls
            /\ appTransactions' = refreshData(res.transactions)
            /\ aiPreview' = ConfirmedPreview
            /\ magicInput' = ""
            /\ previewImage' = Null
            /\ timers' = IF magicInput # "" THEN ParsingEffect("", Null) ELSE timers
            /\ inflight' = IF magicInput # "" THEN MarkChanged(inflight) ELSE inflight
            /\ sinceChange' = IF magicInput # "" THEN 0 ELSE sinceChange
            /\ lastOp' = [op |-> "confirm", status |-> res.status]
            /\ UNCHANGED <<isProcessing, isScanning, users, budgets>>
    ELSE /\ lastOp' = [op |-> "confirm", status |-> 0]
         /\ UNCHANGED appVars
         /\ UNCHANGED dbVars

\* The SYNC_TO_VOID_LEDGER button, rendered while a preview exists or a scan
\* is running.
confirmClick ==
    /\ aiPreview # Null \/ isScanning
    /\ \E id \in Ids, q \in CreateQuota : confirmTransaction(id, q)

\* The form's onSubmit: confirm when a preview exists, else an immediate
\* parseNaturalLanguage of a non-empty text, else nothing.
onSubmit ==
    IF aiPreview # Null
    THEN \E id \in Ids, q \in CreateQuota : confirmTransaction(id, q)
    ELSE /\ magicInput # ""
         /\ Len(inflight) < MaxInFlight
         /\ inflight' = Append(inflight, Call("submit", magicInput))
         /\ lastOp' = [op |-> "submitParse"]
         /\ UNCHANGED <<magicInput, aiPreview, previewImage, isProcessing, isScanning,
                        appTransactions, timers, sinceChange>>
         /\ UNCHANGED dbVars

\* The X button of the preview panel, rendered while a preview exists or a
\* scan is running.
cancel ==
    /\ aiPreview # Null \/ isScanning
    /\ aiPreview' = Null
    /\ previewImage' = CancelledImage
    /\ inflight' = MarkCancelled(inflight)
    /\ lastOp' = [op |-> "cancel", had |-> aiPreview # Null]
    /\ UNCHANGED <<magicInput, isProcessing, isScanning, appTransactions, timers,
                   sinceChange>>
    /\ UNCHANGED dbVars

\* deleteTx(id) from a row of the ledger view: TransactionService.delete, then
\* refreshData. The commit writes collections that did not grow.
deleteTx(id) ==
    LET txs == deleteTransaction(transactions, id, currentUserId)
    IN /\ \E i \in 1..Len(appTransactions) : appTransactions[i].id = id
       /\ transactions' = txs
       /\ localStorage' = commit(localStorage, users, txs, budgets, "ok")
       /\ appTransactions' = refreshData(txs)
       /\ lastOp' = [op |-> "delete"]
       /\ UNCHANGED <<magicInput, aiPreview, previewImage, isProcessing, isScanning,
                      timers, inflight, sinceChange, users, budgets>>

Next ==
    \/ \E t \in Texts : setMagicInput(t)
    \/ Tick
    \/ \E i \in 1..Len(timers) : TimerFire(i)
    \/ \E img \in Images : handleFileUpload(img)
    \/ \E i \in 1..Len(inflight), reply \in Replies : ReplyArrives(i, reply)
    \/ confirmClick
    \/ onSubmit
    \/ cancel
    \/ \E id \in Ids : deleteTx(id)

Spec == Init /\ [][Next]_vars

----------------------------------------------------------------------------
(* The store driven directly through the methods of db *)

UserIds == {GuestId, "other_user"}

\* Identifiers of the records handed to db: two, so that two records can carry
\* different identifiers or the same one.
StoreIds == {IdOf(1), IdOf(2)}

\* Amount and category of the records handed to db: a valid pair and a pair
\* with a negative amount and a category outside the enumeration.
StoreShapes == {[amount |-> 40, category |-> "Food"], [amount |-> -5, category |-> "Dining"]}

\* Dates of the records handed to db: two that parse and one that does not.
StoreDates == {"2024-03-01", "2024-03-02", "yesterday"}

\* Records a caller can hand to db.createTransaction.
StoreTxs ==
    {[id |-> i, userId |-> u, amount |-> sh.amount, currency |-> "USD", date |-> d,
      category |-> sh.category, merchant |-> "Cafe", description |-> "", tags |-> <<>>,
      isRecurring |-> FALSE] :
        i \in StoreIds, u \in UserIds, sh \in StoreShapes, d \in StoreDates}

\* db.createTransaction(tx): push, commit, return tx; the only way out other
\* than the return is the exception of a throwing write.
DbCreateTransaction(tx, q) ==
    LET txs == createTransaction(transactions, tx)
    IN /\ Len(transactions) < MaxStored
       /\ transactions' = txs
       /\ localStorage' = commit(localStorage, users, txs, budgets, q)
       /\ lastOp' = [op |-> "createTransaction", tx |-> tx,
                     result |-> IF q = "ok" THEN "returned" ELSE "QuotaExceededError"]
       /\ UNCHANGED <<users, budgets>>
       /\ UNCHANGED appVars

\* db.deleteTransaction(id, userId): filter, commit.
DbDeleteTransaction(id, userId) ==
    LET txs == deleteTransaction(transactions, id, userId)
    IN /\ transactions' = txs
       /\ localStorage' = commit(localStorage, users, txs, budgets, "ok")
       /\ lastOp' = [op |-> "deleteTransaction", id |-> id, userId |-> userId]
       /\ UNCHANGED <<users, budgets>>
       /\ UNCHANGED appVars

StoreNext ==
    \/ \E tx \in StoreTxs, q \in CreateQuota : DbCreateTransaction(tx, q)
    \/ \E id \in StoreIds, u \in UserIds : DbDeleteTransaction(id, u)

StoreSpec == Init /\ [][StoreNext]_vars

----------------------------------------------------------------------------
(* Budgets and aggregates: db driven through createTransaction,            *)
(* deleteTransaction and upsertBudget                                      *)

\* The one identifier of the transactions of this specification.
SpendId == IdOf(1)

\* Transactions a caller can hand to db.createTransaction here: two owners,
\* two categories that differ in case only, amounts that can cancel out.
SpendTxs ==
    {[id |-> SpendId, userId |-> u, amount |-> a, currency |-> "USD",
      date |-> "2024-03-01", category |-> c, merchant |-> "Cafe", description |-> "",
      tags |-> <<>>, isRecurring |-> FALSE] :
        u \in UserIds, a \in {-40, 25, 40}, c \in {"Food", "food"}}

\* Budgets a caller can hand to db.upsertBudget. spent is whatever the caller
\* last saw.
BudgetInputs ==
    {[id |-> i, userId |-> u, category |-> c, limitAmount |-> 500,
      period |-> "monthly", spent |-> 0] :
        i \in {"b1", "b7"}, u \in UserIds, c \in {"Food", "food"}}

\* db.upsertBudget(budget): replace or push, commit, return budget.
DbUpsertBudget(budget) ==
    LET bs == upsertBudget(budgets, budget)
    IN /\ budgets' = bs
       /\ localStorage' = commit(localStorage, users, transactions, bs, "ok")
       /\ lastOp' = [op |-> "upsertBudget", budget |-> budget]
       /\ UNCHANGED <<users, transactions>>
       /\ UNCHANGED appVars

BudgetNext ==
    \/ \E tx \in SpendTxs : Len(transactions) < MaxSpend /\ DbCreateTransaction(tx, "ok")
    \/ \E u \in UserIds : DbDeleteTransaction(SpendId, u)
    \/ \E b \in BudgetInputs : DbUpsertBudget(b)

BudgetSpec == Init /\ [][BudgetNext]_vars

----------------------------------------------------------------------------
(* Users: db driven through createUser *)

\* Users a caller can hand to db.createUser.
UserInputs ==
    {[id |-> i, email |-> e, name |-> "Zen Traveler",
      preferences |-> [currency |-> "USD", theme |-> "dark"], createdAt |-> NowISO] :
        i \in UserIds \cup {"third_user"}, e \in {"guest@zen.finance", "a@b.c"}}

\* db.createUser(user): push, commit, return user.
DbCreateUser(user) ==
    LET us == createUser(users, user)
    IN /\ Len(users) < MaxUsers
       /\ users' = us
       /\ localStorage' = commit(localStorage, us, transactions, budgets, "ok")
       /\ lastOp' = [op |-> "createUser", user |-> user, result |-> "returned"]
       /\ UNCHANGED <<transactions, budgets>>
       /\ UNCHANGED appVars

UserNext == \E user \in UserInputs : DbCreateUser(user)

UserSpec == Init /\ [][UserNext]_vars

----------------------------------------------------------------------------
(* The gateway: the three functions of ai.ts called directly *)

\* A history of n transactions, as askFinancialCoach is handed one.
History(n) ==
    [i \in 1..n |-> [id |-> i, userId |-> GuestId, amount |-> i, currency |-> "USD",
                     date |-> "2024-03-01", category |-> "Food"]]

\* parseTransactionWithAI(text) is called and the remote call comes to reply.
GatewayParse(reply) ==
    /\ lastOp' = [op |-> "parseTransactionWithAI", reply |-> reply.t,
                  result |-> parseTransactionWithAI(reply)]
    /\ UNCHANGED appVars
    /\ UNCHANGED dbVars

\* scanReceiptWithAI(base64, mimeType) is called and the remote call comes to
\* reply.
GatewayScan(reply) ==
    /\ lastOp' = [op |-> "scanReceiptWithAI", reply |-> reply.t,
                  result |-> scanReceiptWithAI(reply)]
    /\ UNCHANGED appVars
    /\ UNCHANGED dbVars

\* askFinancialCoach(history, query) is called with a history of n
\* transactions and the remote call comes to reply.
GatewayCoach(n, reply) ==
    /\ lastOp' = [op |-> "askFinancialCoach", history |-> n, reply |-> reply.t,
                  result |-> askFinancialCoach(History(n), reply)]
    /\ UNCHANGED appVars
    /\ UNCHANGED dbVars

GatewayNext ==
    \/ \E reply \in Replies : GatewayParse(reply)
    \/ \E reply \in Replies : GatewayScan(reply)
    \/ \E n \in 0..MaxHistory, reply \in CoachReplies : GatewayCoach(n, reply)

GatewaySpec == Init /\ [][GatewayNext]_vars

----------------------------------------------------------------------------
(* Restarts: db driven through its four mutations, the storage damaged      *)
(* from outside, and the module loaded anew                                 *)

\* Users a caller can hand to db.createUser here.
RestartUsers == {u \in UserInputs : u.id # GuestId /\ u.email = "a@b.c"}

\* Transactions a caller can hand to db.createTransaction here: one as
\* TransactionService.create builds it from a payload without aiMetadata, one
\* that carries the metadata.
RestartTxs ==
    {[id |-> IdOf(1), userId |-> GuestId, amount |-> 40, currency |-> "USD",
      date |-> "2024-03-01", category |-> "Food", merchant |-> "Cafe", description |-> "",
      tags |-> <<>>, isRecurring |-> FALSE, aiMetadata |-> Undefined],
     [id |-> IdOf(2), userId |-> GuestId, amount |-> 25, currency |-> "USD",
      date |-> "2024-03-02", category |-> "Transport", merchant |-> "Metro",
      description |-> "", tags |-> <<>>, isRecurring |-> FALSE,
      aiMetadata |-> [confidence |-> 1, originalPrompt |-> "Metro $25",
                      modelUsed |-> "gemini"]]}

\* Budgets a caller can hand to db.upsertBudget here.
RestartBudgets == {b \in BudgetInputs : b.userId = GuestId /\ b.category = "Food"}

\* The text under one storage key is damaged while the others stay as they
\* are: the state hydrate's catch is written for.
Corrupt(k) ==
    /\ \A key \in StorageKeys : localStorage[key].wellFormed
    /\ localStorage' = [localStorage EXCEPT ![k] = MalformedText]
    /\ lastOp' = [op |-> "corrupt", key |-> k]
    /\ UNCHANGED <<users, transactions, budgets>>
    /\ UNCHANGED appVars

\* The page is loaded again: `export const db = new MockDatabase()`.
\* malformed: the keys whose text did not parse at this load.
Restart ==
    LET fresh == MockDatabase(localStorage)
    IN /\ users' = fresh.users
       /\ transactions' = fresh.transactions
       /\ budgets' = fresh.budgets
       /\ localStorage' = fresh.ls
       /\ lastOp' = [op |-> "restart",
                     malformed |-> {k \in StorageKeys : ~localStorage[k].wellFormed}]
       /\ UNCHANGED appVars

RestartNext ==
    \/ \E user \in RestartUsers : DbCreateUser(user)
    \/ \E tx \in RestartTxs : Len(transactions) < MaxSpend /\ DbCreateTransaction(tx, "ok")
    \/ \E id \in StoreIds : DbDeleteTransaction(id, GuestId)
    \/ \E b \in RestartBudgets : DbUpsertBudget(b)
    \/ \E k \in StorageKeys : Corrupt(k)
    \/ Restart

RestartSpec == Init /\ [][RestartNext]_vars

----------------------------------------------------------------------------
(* Properties *)

\* The validity the data model asks of a stored transaction.
ValidTransaction(tx) ==
    /\ tx.amount >= 0
    /\ tx.category \in Categories
    /\ DateParses(tx.date)

ResultOfTextCall == lastOp.op = "result" /\ lastOp.call.via \in {"timer", "submit"}

\* C1: a text extraction result that arrives after the text bar changed while
\* the call was in flight is discarded: the preview is not set from it.
C1_StaleResultDiscarded ==
    [][(ResultOfTextCall' /\ lastOp'.call.changed) => aiPreview' = aiPreview]_vars

\* C2: a call issued by the debounce is for the final text of the burst of
\* edits that led to it: when the callback runs after an edit that came inside
\* the debounce window, its argument is the text now in the bar.
C2_DebouncedCallIsForFinalText ==
    [][(lastOp'.op = "timerFire" /\ sinceChange > 0 /\ sinceChange < DebounceMs)
          => lastOp'.text = magicInput]_vars

\* C3: at no time are two extraction calls in flight together.
C3_AtMostOneCallInFlight == Len(inflight) <= 1

\* C4: while a preview is active no arriving extraction result replaces it.
C4_ActivePreviewNotReplaced ==
    [][(lastOp'.op = "result" /\ aiPreview # Null) => aiPreview' = aiPreview]_vars

\* C5: confirm with no preview active calls no create and changes neither the
\* store, nor the text bar, nor any other state of the pipeline.
C5_ConfirmWhileIdleIsNoOp ==
    [][(lastOp'.op = "confirm" /\ aiPreview = Null)
          => (lastOp'.status = 0 /\ UNCHANGED appVars /\ UNCHANGED dbVars)]_vars

\* C5 witness: confirm was clicked with no preview (the panel was up for a scan).
C5_Witness == lastOp.op = "confirm" /\ lastOp.status = 0 /\ aiPreview = Null /\ isScanning

\* C6: a confirm whose create came back with status 500 leaves the preview,
\* the text bar, the staged image and the stored transactions as they were.
C6_RejectedCommitKeepsPreview ==
    [][(lastOp'.op = "confirm" /\ lastOp'.status = 500)
          => (/\ aiPreview' = aiPreview
              /\ magicInput' = magicInput
              /\ previewImage' = previewImage
              /\ transactions' = transactions)]_vars

\* C7: a confirm whose create came back with status 201 has appended exactly
\* one transaction to the store and cleared the preview and the text bar.
C7_SuccessfulConfirm ==
    [][(lastOp'.op = "confirm" /\ lastOp'.status = 201)
          => (/\ Len(transactions') = Len(transactions) + 1
              /\ SubSeq(transactions', 1, Len(transactions)) = transactions
              /\ aiPreview' = Null
              /\ magicInput' = "")]_vars

\* C7 witness: a confirm has just succeeded and its record is in the store.
C7_Witness ==
    /\ lastOp.op = "confirm"
    /\ lastOp.status = 201
    /\ transactions # <<>>
    /\ aiPreview = Null

\* C8: cancel with a preview active discards the preview and the staged image
\* and leaves users, transactions and budgets, in memory and persisted, as
\* they were.
C8_CancelDiscardsWithoutSideEffects ==
    [][(lastOp'.op = "cancel" /\ aiPreview # Null)
          => (aiPreview' = Null /\ previewImage' = Null /\ UNCHANGED dbVars)]_vars

\* C8 witness: cancel has just discarded a preview, with a transaction in the
\* store.
C8_Witness ==
    /\ lastOp.op = "cancel"
    /\ lastOp.had
    /\ aiPreview = Null
    /\ previewImage = Null
    /\ transactions # <<>>

\* C9: the result of a call that was in flight when cancel was clicked is
\* discarded on arrival: the preview is not set from it.
C9_ResultAfterCancelDiscarded ==
    [][(lastOp'.op = "result" /\ lastOp'.call.cancelled) => aiPreview' = aiPreview]_vars

\* C10: db.createTransaction of a record with a negative amount, a category
\* outside the enumeration or an unparseable date fails with ValidationError
\* and leaves the stored transactions unchanged.
C10_InvalidTransactionRejected ==
    [][(lastOp'.op = "createTransaction" /\ ~ValidTransaction(lastOp'.tx))
          => (lastOp'.result = "ValidationError" /\ transactions' = transactions)]_vars

----------------------------------------------------------------------------
(* Properties of the record store *)

\* How many times x occurs in the sequence s.
Count(s, x) == Cardinality({i \in 1..Len(s) : s[i] = x})

\* Whether two sequences hold the same records the same number of times.
SameRecords(s, t) ==
    \A x \in {s[i] : i \in 1..Len(s)} \cup {t[i] : i \in 1..Len(t)} :
        Count(s, x) = Count(t, x)

\* Callers of getTransactions: the two owners of records and a user with none.
Readers == UserIds \cup {"nobody"}

\* Filters a caller can pass to getTransactions.
Filters ==
    {Null, EmptyRecord}
    \cup {[category |-> c] : c \in {"Food", "Dining"}}
    \cup {[startDate |-> d] : d \in {"2024-03-01", "2024-03-02"}}
    \cup {[category |-> c, startDate |-> d] :
              c \in {"Food", "Dining"}, d \in {"2024-03-01", "2024-03-02"}}

\* A date on or after a lower bound, as instants.
OnOrAfter(date, bound) ==
    DateParses(date) /\ DateParses(bound) /\ DateTime(date) >= DateTime(bound)

\* What the contract of getTransactions selects.
Selected(t, userId, filters) ==
    /\ t.userId = userId
    /\ (filters # Null /\ Has(filters, "category")) => t.category = filters.category
    /\ (filters # Null /\ Has(filters, "startDate")) => OnOrAfter(t.date, filters.startDate)

\* C11: every persisted transaction has a non-negative amount, a category of
\* the enumeration and a date that parses, whatever the extraction returned.
C11_PersistedTransactionsValid ==
    \A i \in 1..Len(localStorage.transactions.array) :
        ValidTransaction(localStorage.transactions.array[i])

\* C12: right after createTransaction(tx) of a valid tx, getTransactions of
\* tx's owner holds tx once more than before and still holds every
\* transaction it held before.
C12_CreatedTransactionIsRead ==
    [][(lastOp'.op = "createTransaction" /\ ValidTransaction(lastOp'.tx))
          => LET tx == lastOp'.tx
                 before == getTransactions(transactions, tx.userId, Null)
                 after == getTransactions(transactions', tx.userId, Null)
             IN /\ Count(after, tx) = Count(before, tx) + 1
                /\ \A i \in 1..Len(before) :
                       Count(after, before[i]) >= Count(before, before[i])]_vars

\* C12 witness: a valid transaction has just been created for a user who
\* already had two.
C12_Witness ==
    /\ lastOp.op = "createTransaction"
    /\ ValidTransaction(lastOp.tx)
    /\ Len(getTransactions(transactions, lastOp.tx.userId, Null)) = 3
    /\ Count(getTransactions(transactions, lastOp.tx.userId, Null), lastOp.tx) = 1

\* C13: in what getTransactions returns, of two transactions whose dates
\* parse the later one comes first, and the transactions of one instant are
\* in the order of their insertion.
C13_SortedByDateDescStable ==
    \A u \in UserIds :
        LET r == getTransactions(transactions, u, Null)
            Owned(t) == t.userId = u
            stored == SelectSeq(transactions, Owned)
        IN /\ \A i, j \in 1..Len(r) :
                  (i < j /\ DateParses(r[i].date) /\ DateParses(r[j].date))
                      => DateTime(r[i].date) >= DateTime(r[j].date)
           /\ \A d \in StoreDates :
                  LET At(t) == t.date = d
                  IN SelectSeq(r, At) = SelectSeq(stored, At)

\* C14: getTransactions(userId, filters) returns exactly the stored
\* transactions of userId that have the category asked for and a date on or
\* after startDate, each as many times as it is stored: nothing of another
\* user, and the empty sequence when nothing matches.
C14_ExactlyTheMatching ==
    \A u \in Readers, f \in Filters :
        LET r == getTransactions(transactions, u, f)
            Sel(t) == Selected(t, u, f)
        IN /\ SameRecords(r, SelectSeq(transactions, Sel))
           /\ \A i \in 1..Len(r) : r[i].userId = u
           /\ (\A i \in 1..Len(transactions) : ~Sel(transactions[i])) => r = <<>>

\* C14 witness: the guest holds a transaction dated on the lower bound and one
\* before it, another user holds one too, and the read with that bound keeps
\* the first only.
C14_Witness ==
    /\ Len(transactions) = 3
    /\ \E i \in 1..3 : transactions[i].userId # GuestId
    /\ \E i \in 1..3 : transactions[i].userId = GuestId /\ transactions[i].date = "2024-03-01"
    /\ LET r == getTransactions(transactions, GuestId, [startDate |-> "2024-03-02"])
       IN Len(r) = 1 /\ r[1].date = "2024-03-02"

\* C15: deleteTransaction(id, userId) leaves no transaction with that id and
\* owner, keeps every other transaction in its place relative to the others,
\* touches neither users nor budgets, and changes nothing when no transaction
\* has that id and owner; a second application changes nothing more.
C15_DeleteRemovesExactlyTheOwned ==
    [][lastOp'.op = "deleteTransaction"
          => LET id == lastOp'.id
                 u == lastOp'.userId
                 Hit(t) == t.id = id /\ t.userId = u
                 Other(t) == ~Hit(t)
             IN /\ \A i \in 1..Len(transactions') : ~Hit(transactions'[i])
                /\ transactions' = SelectSeq(transactions, Other)
                /\ (\A i \in 1..Len(transactions) : ~Hit(transactions[i]))
                      => transactions' = transactions
                /\ deleteTransaction(transactions', id, u) = transactions'
                /\ UNCHANGED <<users, budgets>>]_vars

\* C15 witness: a delete has just removed a transaction of one user while the
\* transaction of another user with the same identifier stayed.
C15_Witness ==
    /\ lastOp.op = "deleteTransaction"
    /\ Len(transactions) = 2
    /\ Len(localStorage.transactions.array) = 2
    /\ \E i \in 1..2 : transactions[i].id = lastOp.id /\ transactions[i].userId # lastOp.userId

\* The sum of the amounts of the transactions of txs at the indexes I.
RECURSIVE SumAt(_, _)
SumAt(txs, I) ==
    IF I = {} THEN 0
    ELSE LET i == CHOOSE k \in I : TRUE
         IN txs[i].amount + SumAt(txs, I \ {i})

\* The sum of the amounts stored for a user in a category.
SpentBy(userId, category) ==
    SumAt(transactions,
          {i \in 1..Len(transactions) :
              transactions[i].userId = userId /\ transactions[i].category = category})

\* C16: every budget getBudgets returns has spent equal to the sum of the
\* amounts now stored for that user in exactly the budget's category, and
\* getBudgets returns one budget for each stored budget of the user.
C16_SpentIsRecomputed ==
    \A u \in UserIds :
        LET r == getBudgets(budgets, transactions, u)
        IN /\ \A i \in 1..Len(r) : r[i].spent = SpentBy(u, r[i].category)
           /\ Len(r) = Cardinality({i \in 1..Len(budgets) : budgets[i].userId = u})

\* C16 witness: the guest's Food budget was stored first, transactions came
\* after it, one of the same category and one whose category differs in case
\* only, and the read gives the sum of the first kind.
C16_Witness ==
    /\ lastOp.op = "createTransaction"
    /\ Len(budgets) = 1
    /\ budgets[1].userId = GuestId /\ budgets[1].category = "Food"
    /\ \E i \in 1..Len(transactions) :
           transactions[i].userId = GuestId /\ transactions[i].category = "food"
    /\ getBudgets(budgets, transactions, GuestId)[1].spent = 40

\* C17: every budget BudgetService.getAll answers with, the default set
\* included, has spent equal to the sum of the amounts now stored for the
\* session's user in the budget's category.
C17_ServedBudgetsConsistent ==
    LET r == BudgetServiceGetAll(budgets, transactions)
    IN \A i \in 1..Len(r) : r[i].spent = SpentBy(currentUserId, r[i].category)

\* C18: upsertBudget(b) appends b when no stored budget has b's identifier
\* and otherwise puts b in the place of the budget with that identifier,
\* leaving every other budget where it was; afterwards the identifiers are
\* pairwise distinct and b is the budget stored under its identifier.
C18_UpsertInsertsOrReplaces ==
    [][lastOp'.op = "upsertBudget"
          => LET b == lastOp'.budget
                 seen == \E i \in 1..Len(budgets) : budgets[i].id = b.id
             IN /\ ~seen => budgets' = Append(budgets, b)
                /\ seen => /\ Len(budgets') = Len(budgets)
                           /\ \A i \in 1..Len(budgets) :
                                  budgets'[i] = IF budgets[i].id = b.id THEN b ELSE budgets[i]
                /\ \A i, j \in 1..Len(budgets') :
                       budgets'[i].id = budgets'[j].id => i = j
                /\ \E i \in 1..Len(budgets') : budgets'[i] = b]_vars

\* C18 witness: an upsert has just replaced the first of two stored budgets.
C18_Witness ==
    /\ lastOp.op = "upsertBudget"
    /\ Len(budgets) = 2
    /\ budgets[1] = lastOp.budget
    /\ budgets[2].id # lastOp.budget.id
    /\ localStorage.budgets = JSONStringify(budgets)

\* C19: createUser with an identifier that is already stored fails with
\* DuplicateUser or does nothing: the users stay as they were, and so the
\* stored identifiers stay pairwise distinct.
C19_DuplicateUserRefused ==
    [][(lastOp'.op = "createUser"
           /\ \E i \in 1..Len(users) : users[i].id = lastOp'.user.id)
          => /\ users' = users
             /\ \A i, j \in 1..Len(users') : users'[i].id = users'[j].id => i = j]_vars

SameData(a, b) == JSONStringify(a) = JSONStringify(b)

\* C24: at a load that finds the text of exactly one collection malformed,
\* that collection comes up empty (users: empty but for the guest user the
\* constructor then creates), the other two come up with what was persisted,
\* and their persisted texts are still there after the load.
C24_OneMalformedCollectionIsIsolated ==
    [][(lastOp'.op = "restart" /\ Cardinality(lastOp'.malformed) = 1)
          => /\ IF "users" \in lastOp'.malformed
                THEN users' \in {<<>>, <<GuestUser>>}
                ELSE users' = localStorage.users.array
                     /\ localStorage'.users = localStorage.users
             /\ IF "transactions" \in lastOp'.malformed
                THEN transactions' = <<>>
                ELSE transactions' = localStorage.transactions.array
                     /\ localStorage'.transactions = localStorage.transactions
             /\ IF "budgets" \in lastOp'.malformed
                THEN budgets' = <<>>
                ELSE budgets' = localStorage.budgets.array
                     /\ localStorage'.budgets = localStorage.budgets]_vars

----------------------------------------------------------------------------
(* Properties of the pipeline, continued *)

\* C26: a text extraction call is issued (by the debounced callback or by the
\* form's onSubmit) only at a moment when the text bar holds more than MinLen
\* characters, no preview is active and the text has not changed for the
\* whole debounce delay.
C26_TextCallOnlyWhenLongIdleAndStable ==
    [][(lastOp'.op \in {"timerFire", "submitParse"})
          => (/\ Len(magicInput) > MinLen
              /\ aiPreview = Null
              /\ sinceChange >= DebounceMs)]_vars

\* The sequence new is old with at least one element taken out and the rest
\* as they were, in their order.
Removed(old, new) ==
    \E keep \in SUBSET (1..Len(old)) :
        /\ keep # 1..Len(old)
        /\ Len(new) = Cardinality(keep)
        /\ \A k \in 1..Len(new) :
              \E i \in keep : Cardinality({j \in keep : j <= i}) = k /\ new[k] = old[i]

\* C27: the stored transactions, in memory and persisted, change only in a
\* confirm made on an active preview, which appends one record and leaves the
\* others as they were, or in a delete, which takes records out and leaves
\* the others as they were.
C27_StoreChangesOnlyByConfirmOrDelete ==
    [][/\ transactions' # transactions
          => \/ /\ lastOp'.op = "confirm" /\ aiPreview # Null
                /\ Len(transactions') = Len(transactions) + 1
                /\ SubSeq(transactions', 1, Len(transactions)) = transactions
             \/ /\ lastOp'.op = "delete"
                /\ Removed(transactions, transactions')
       /\ localStorage'.transactions # localStorage.transactions
          => \/ lastOp'.op = "confirm" /\ aiPreview # Null
             \/ lastOp'.op = "delete"]_vars

\* C27 witness: an extraction result has arrived and set a preview while a
\* transaction is stored.
C27_Witness ==
    /\ lastOp.op = "result" /\ aiPreview # Null
    /\ Len(transactions) = 1
    /\ localStorage.transactions = JSONStringify(transactions)

C29_AtMostOneTimerPending == Len(timers) <= 1

\* C29 witness: an edit has started a callback while an earlier one was still
\* pending, and the earlier one was cleared.
C29_Witness ==
    /\ lastOp.op = "setMagicInput" /\ lastOp.cleared
    /\ Len(timers) = 1 /\ timers[1].left = DebounceMs

\* C30: when the reply to an extraction call arrives, whatever it is, the
\* busy flag of the call is false afterwards and no exception is left
\* unhandled.
C30_ExtractionEndsQuietly ==
    [][lastOp'.op = "result"
          => /\ ~lastOp'.escaped
             /\ lastOp'.call.via = "timer" => ~isProcessing'
             /\ lastOp'.call.via = "upload" => ~isScanning']_vars

----------------------------------------------------------------------------
(* Properties of the aggregates, continued *)

\* C21: the trend of the dashboard summary has exactly one point for each day
\* on which the current user has a transaction, the amount of the point is the
\* sum of the amounts of that day, no point is for a day without one, and the
\* points whose dates parse are in ascending order of date.
C21_TrendOnePointPerDayAscending ==
    LET trend == getDashboardSummary(transactions).trend
        Mine == {i \in 1..Len(transactions) : transactions[i].userId = currentUserId}
        Days == {DayOf(transactions[i].date) : i \in Mine}
        SumOn(d) == SumAt(transactions, {i \in Mine : DayOf(transactions[i].date) = d})
    IN /\ \A d \in Days :
             Cardinality({k \in 1..Len(trend) : trend[k].date = d}) = 1
       /\ \A k \in 1..Len(trend) :
             trend[k].date \in Days /\ trend[k].amount = SumOn(trend[k].date)
       /\ \A j, k \in 1..Len(trend) :
             (j < k /\ DateParses(trend[j].date) /\ DateParses(trend[k].date))
                => DateTime(trend[j].date) <= DateTime(trend[k].date)

----------------------------------------------------------------------------
(* Properties of the gateway *)

\* C22: whatever the remote call comes to, parseTransactionWithAI and
\* scanReceiptWithAI return to their caller, and what they return holds a
\* partial record.
C22_ExtractionNeverRaises ==
    /\ lastOp.op = "parseTransactionWithAI"
          => (~lastOp.result.threw /\ lastOp.result.value.transaction # Null)
    /\ lastOp.op = "scanReceiptWithAI"
          => (~lastOp.result.threw /\ lastOp.result.value # Null)

\* C23: whatever the remote call comes to, askFinancialCoach returns to its
\* caller, with the fallback string when the call failed, and the context it
\* sent holds at most HistoryLimit transactions.
C23_CoachNeverRaises ==
    lastOp.op = "askFinancialCoach"
       => /\ Len(lastOp.result.context) <= HistoryLimit
          /\ ~lastOp.result.threw
          /\ lastOp.reply = "fail" => lastOp.result.value = FallbackText

----------------------------------------------------------------------------
(* Properties of the committed record *)

\* The field f of the record committed from the preview p: the field of the
\* preview when it has one, the default d otherwise.
Carried(p, f, d) == IF Has(p, f) THEN p[f] ELSE d

\* C31: the record a successful confirm appends is owned by the session user,
\* carries the fields of the preview, has the service defaults for the fields
\* the preview lacks, and has for description the text of the bar when there
\* is one and "Zen Scan: " followed by its merchant otherwise.
C31_CommittedRecordMergesPreview ==
    [][(lastOp'.op = "confirm" /\ lastOp'.status = 201)
          => LET tx == transactions'[Len(transactions')]
                 user == getUser(users, currentUserId)
             IN /\ tx.userId = currentUserId
                /\ tx.amount = Carried(aiPreview, "amount", 0)
                /\ tx.currency = Carried(aiPreview, "currency", user.preferences.currency)
                /\ tx.date = Carried(aiPreview, "date", NowISO)
                /\ tx.category = Carried(aiPreview, "category", "Uncategorized")
                /\ tx.merchant = Carried(aiPreview, "merchant", "Unknown")
                /\ tx.tags = Carried(aiPreview, "tags", <<>>)
                /\ tx.isRecurring = Carried(aiPreview, "isRecurring", FALSE)
                /\ tx.description = IF magicInput # "" THEN magicInput
                                    ELSE "Zen Scan: " \o tx.merchant]_vars

----------------------------------------------------------------------------
(* Reads: db filled through createTransaction and upsertBudget, and read    *)
(* through getTransactions, getBudgets, BudgetService.getAll and            *)
(* AnalyticsService.getDashboardSummary                                     *)

\* Transactions a caller can hand to db.createTransaction here.
ReadTxs == {tx \in StoreTxs : tx.amount = 40}

\* db.getTransactions(userId, filters).
ReadTransactions(userId, filters) ==
    /\ transactions' = StoredAfterSort(transactions)
    /\ lastOp' = [op |-> "getTransactions", userId |-> userId, filters |-> filters,
                  result |-> getTransactions(transactions, userId, filters)]
    /\ UNCHANGED <<users, budgets, localStorage>>
    /\ UNCHANGED appVars

\* db.getBudgets(userId), which reads through getTransactions.
ReadBudgets(userId) ==
    /\ transactions' = StoredAfterSort(transactions)
    /\ lastOp' = [op |-> "getBudgets", userId |-> userId,
                  result |-> getBudgets(budgets, transactions, userId)]
    /\ UNCHANGED <<users, budgets, localStorage>>
    /\ UNCHANGED appVars

\* BudgetService.getAll(), which reads through db.getBudgets.
ReadAllBudgets ==
    /\ transactions' = StoredAfterSort(transactions)
    /\ lastOp' = [op |-> "BudgetService.getAll",
                  result |-> BudgetServiceGetAll(budgets, transactions)]
    /\ UNCHANGED <<users, budgets, localStorage>>
    /\ UNCHANGED appVars

\* AnalyticsService.getDashboardSummary(), which reads through
\* db.getTransactions.
ReadDashboardSummary ==
    /\ transactions' = StoredAfterSort(transactions)
    /\ lastOp' = [op |-> "getDashboardSummary", result |-> getDashboardSummary(transactions)]
    /\ UNCHANGED <<users, budgets, localStorage>>
    /\ UNCHANGED appVars

ReadNext ==
    \/ \E tx \in ReadTxs : Len(transactions) < MaxSpend /\ DbCreateTransaction(tx, "ok")
    \/ \E b \in RestartBudgets : DbUpsertBudget(b)
    \/ \E u \in Readers, f \in Filters : ReadTransactions(u, f)
    \/ \E u \in Readers : ReadBudgets(u)
    \/ ReadAllBudgets
    \/ ReadDashboardSummary

ReadSpec == Init /\ [][ReadNext]_vars

ReadOps == {"getTransactions", "getBudgets", "BudgetService.getAll", "getDashboardSummary"}

\* What the read recorded in r returns on the collections txs and bs.
ReadAgain(r, txs, bs) ==
    CASE r.op = "getTransactions" -> getTransactions(txs, r.userId, r.filters)
      [] r.op = "getBudgets" -> getBudgets(bs, txs, r.userId)
      [] r.op = "BudgetService.getAll" -> BudgetServiceGetAll(bs, txs)
      [] r.op = "getDashboardSummary" -> getDashboardSummary(txs)

====
